---- MODULE Spec2Model ----
(***************************************************************************)
(* Model of project.py: the corpus preparer (preprocess), the relevance    *)
(* matcher (get_most_relevant_sentence), the response decision (chatbot),  *)
(* the speech transcription wrapper (transcribe_speech) and the chat       *)
(* history kept by main().                                                 *)
(*                                                                         *)
(* A Python str is a sequence of one-character strings.  An optional value *)
(* (None or a value) is a sequence of length 0 or 1.  A score m / n is the *)
(* pair <<m, n>>, compared by cross-multiplication; for the token counts   *)
(* of the model this orders the quotients exactly as the correctly rounded *)
(* float division of the code does.                                        *)
(***************************************************************************)
EXTENDS Integers, Sequences, FiniteSets, TLC

VARIABLES
    text,           \* raw text handed to preprocess
    sentences,      \* the corpus: the list preprocess returned
    user_input,     \* the query handed to the matcher / chatbot
    best,           \* what get_most_relevant_sentence returned
    reply,          \* what chatbot returned, with the matcher call count
    audio,          \* what the microphone and the recogniser do on a voice request
    transcribed,    \* what the last transcribe_speech call returned
    chat_history,   \* st.session_state.chat_history
    pc              \* position of the run

vars ==
    << text, sentences, user_input, best, reply, audio, transcribed, chat_history, pc >>

(***************************************************************************)
(* Bounds of the model.                                                    *)
(***************************************************************************)
MaxLen == 4             \* longest enumerated raw text, in characters
MaxSentences == 2       \* most '.'-terminated segments of a corpus text
MaxQueryTokens == 5     \* most words of an enumerated query
MaxHistory == 6         \* most entries the chat history grows to

(***************************************************************************)
(* Characters and the str methods the code uses.                           *)
(***************************************************************************)
UPPER ==
    << "A","B","C","D","E","F","G","H","I","J","K","L","M","N","O","P","Q","R","S","T",
       "U","V","W","X","Y","Z" >>

LOWER ==
    << "a","b","c","d","e","f","g","h","i","j","k","l","m","n","o","p","q","r","s","t",
       "u","v","w","x","y","z" >>

Digits == {"0","1","2","3","4","5","6","7","8","9"}

LowerLetters == {LOWER[i] : i \in DOMAIN LOWER}

\* the characters str.strip(), str.split() and the regex class \s treat as space
Whitespace == {" ", "\t", "\n", "\r"}

UpperLetters == {UPPER[i] : i \in DOMAIN UPPER}

ToLower == [c \in UpperLetters |-> LOWER[CHOOSE i \in DOMAIN UPPER : UPPER[i] = c]]

ToUpper == [c \in LowerLetters |-> UPPER[CHOOSE i \in DOMAIN LOWER : LOWER[i] = c]]

LowerChar(c) == IF c \in UpperLetters THEN ToLower[c] ELSE c

UpperChar(c) == IF c \in LowerLetters THEN ToUpper[c] ELSE c

\* str.lower()
lower(s) == [i \in 1..Len(s) |-> LowerChar(s[i])]

\* str.title(): the first letter of every word upper-cased, the others lower-cased
title(s) ==
    [i \in 1..Len(s) |->
        IF i = 1 \/ LowerChar(s[i - 1]) \notin LowerLetters
        THEN UpperChar(s[i]) ELSE LowerChar(s[i])]

\* str.capitalize(): first character upper-cased, all the others lower-cased
capitalize(s) ==
    [i \in 1..Len(s) |-> IF i = 1 THEN UpperChar(s[i]) ELSE LowerChar(s[i])]

\* str.split(sep): the pieces between the separators, empty pieces included
RECURSIVE split_on(_, _)
split_on(s, sep) ==
    IF \A i \in 1..Len(s) : s[i] # sep
    THEN << s >>
    ELSE LET i == CHOOSE k \in 1..Len(s) :
                      s[k] = sep /\ \A j \in 1..(k - 1) : s[j] # sep
         IN  << SubSeq(s, 1, i - 1) >> \o split_on(SubSeq(s, i + 1, Len(s)), sep)

\* str.strip(): leading and trailing whitespace removed
strip(s) ==
    LET inside == {i \in 1..Len(s) : s[i] \notin Whitespace}
    IN  IF inside = {} THEN << >>
        ELSE LET first == CHOOSE i \in inside : \A j \in inside : i <= j
                 last  == CHOOSE i \in inside : \A j \in inside : j <= i
             IN  SubSeq(s, first, last)

\* str.split(): the maximal runs of non-whitespace characters, read left to
\* right; word is the run being read, words the runs already ended
RECURSIVE split_from(_, _, _, _)
split_from(s, i, word, words) ==
    LET ended == IF word = << >> THEN words ELSE Append(words, word)
    IN  IF i > Len(s) THEN ended
        ELSE IF s[i] \in Whitespace THEN split_from(s, i + 1, << >>, ended)
        ELSE split_from(s, i + 1, Append(word, s[i]), words)

split(s) == split_from(s, 1, << >>, << >>)

\* the characters the pattern [^a-z0-9\s] does not match
KeptChars == LowerLetters \cup Digits \cup Whitespace

Kept(c) == c \in KeptChars

\* re.sub(r'[^a-z0-9\s]', '', s)
re_sub(s) == SelectSeq(s, Kept)

(***************************************************************************)
(* preprocess                                                              *)
(***************************************************************************)
\* "if sentence:" -- a str is true when it is not empty
truthy_always(sentence) == TRUE

truthy(sentence) == sentence # << >>

\* the loop over the '.'-delimited pieces
RECURSIVE cleaned_sentences(_)
cleaned_sentences(pieces) ==
    IF pieces = << >> THEN << >>
    ELSE LET sentence == strip(Head(pieces))
         IN  (IF truthy(sentence) THEN << re_sub(sentence) >> ELSE << >>)
                 \o cleaned_sentences(Tail(pieces))

preprocess(raw) == cleaned_sentences(split_on(lower(raw), "."))

(***************************************************************************)
(* get_most_relevant_sentence                                              *)
(***************************************************************************)
Range(seq) == {seq[i] : i \in DOMAIN seq}

\* lines 103-105: the query lower-cased, stripped of punctuation, split
query_words(query) == split(re_sub(lower(query)))

\* lines 115-118: one match per query word found among the sentence words
matches(words, sentence_words) ==
    Cardinality({i \in DOMAIN words : words[i] \in Range(sentence_words)})

\* lines 121-124: matches / len(query_words), or 0 for a query without words
score_of_one(m, n) == IF n > 0 THEN << m, n >> ELSE << 1, 1 >>

score_of(m, n) == IF n > 0 THEN << m, n >> ELSE << 0, 1 >>

\* line 127: "score > best_score"
better_or_equal(score, best_score) ==
    score[1] * best_score[2] >= best_score[1] * score[2]

better(score, best_score) ==
    score[1] * best_score[2] > best_score[1] * score[2]

\* lines 107-108: the result before any sentence is looked at
NoMatch == [sentence |-> << >>, score |-> << 0, 1 >>]

\* lines 111-129: the loop over the corpus, in corpus order
RECURSIVE best_after(_, _, _)
best_after(words, rest, current) ==
    IF rest = << >> THEN current
    ELSE LET sentence == Head(rest)
             score    == score_of(matches(words, split(sentence)), Len(words))
         IN  best_after(words, Tail(rest),
                        IF better(score, current.score)
                        THEN [sentence |-> sentence, score |-> score]
                        ELSE current)

get_most_relevant_sentence(query, corpus) ==
    best_after(query_words(query), corpus, NoMatch)

(***************************************************************************)
(* chatbot                                                                 *)
(***************************************************************************)
PROMPT_MESSAGE ==
    << "P","l","e","a","s","e"," ","p","r","o","v","i","d","e"," ","a"," ","q","u","e","s",
       "t","i","o","n","!" >>

FALLBACK_MESSAGE ==
    << "I","'","m"," ","s","o","r","r","y",","," ","I"," ","d","o","n","'","t"," ","h","a",
       "v","e"," ","i","n","f","o","r","m","a","t","i","o","n"," ","a","b","o","u","t"," ",
       "t","h","a","t","."," ","T","r","y"," ","a","s","k","i","n","g"," ","a","b","o","u",
       "t"," ","p","l","a","n","e","t","s",","," ","t","h","e"," ","S","u","n",","," ","M",
       "o","o","n",","," ","a","s","t","r","o","n","a","u","t","s",","," ","o","r"," ","s",
       "p","a","c","e"," ","e","x","p","l","o","r","a","t","i","o","n","!" >>

\* line 195: "not user_input or user_input.strip() == ''"
blank_if_empty(input) == input = << >>

blank(input) == input = << >> \/ strip(input) = << >>

\* line 202: "score > 0.2", 0.2 being one fifth
above_threshold_or_at(score) == 5 * score[1] >= score[2]

above_threshold_always(score) == TRUE

above_threshold(score) == 5 * score[1] > score[2]

\* the value chatbot returns, with the number of calls it made to the matcher
chatbot(input, corpus) ==
    IF blank(input)
    THEN [response |-> PROMPT_MESSAGE, matcher_calls |-> 0]
    ELSE LET found == get_most_relevant_sentence(input, corpus)
         IN  [response |-> IF above_threshold(found.score)
                           THEN capitalize(found.sentence) \o << "." >>
                           ELSE FALLBACK_MESSAGE,
              matcher_calls |-> 1]

(***************************************************************************)
(* transcribe_speech                                                       *)
(***************************************************************************)
\* None and a value that is not None
None == << >>

Some(v) == << v >>

\* the messages of lines 164-176, without their leading emoji
TIMEOUT_MESSAGE ==
    << "N","o"," ","s","p","e","e","c","h"," ","d","e","t","e","c","t","e","d","."," ","P",
       "l","e","a","s","e"," ","t","r","y"," ","a","g","a","i","n","." >>

UNINTELLIGIBLE_MESSAGE ==
    << "C","o","u","l","d"," ","n","o","t"," ","u","n","d","e","r","s","t","a","n","d"," ",
       "t","h","e"," ","a","u","d","i","o","."," ","P","l","e","a","s","e"," ","s","p","e",
       "a","k"," ","c","l","e","a","r","l","y","." >>

SERVICE_PREFIX ==
    << "E","r","r","o","r"," ","w","i","t","h"," ","s","p","e","e","c","h"," ","r","e","c",
       "o","g","n","i","t","i","o","n"," ","s","e","r","v","i","c","e",":"," " >>

MICROPHONE_PREFIX ==
    << "M","i","c","r","o","p","h","o","n","e"," ","e","r","r","o","r",":"," " >>

MICROPHONE_SUFFIX ==
    << "."," ","M","a","k","e"," ","s","u","r","e"," ","y","o","u","r"," ","m","i","c","r",
       "o","p","h","o","n","e"," ","i","s"," ","c","o","n","n","e","c","t","e","d","." >>

UNEXPECTED_PREFIX ==
    << "U","n","e","x","p","e","c","t","e","d"," ","e","r","r","o","r",":"," " >>

\* What the calls inside the try block can do: recognize_google returns the
\* text it heard, or one of the calls raises.  Every class is an Exception.
Raises ==
    { << "Microphone", "OSError" >>, << "Microphone", "Exception" >>,
      << "listen", "WaitTimeoutError" >>,
      << "recognize_google", "UnknownValueError" >>,
      << "recognize_google", "RequestError" >> }

Details == { << "b","u","s","y" >> }

Heard == { << >>, << "m","a","r","s","?" >> }

Audio ==
    [kind : {"heard"}, heard : Heard]
        \cup [kind : {"raised"}, call : {r[1] : r \in Raises},
              exc : {r[2] : r \in Raises}, detail : Details]

AudioOutcomes ==
    {a \in Audio : a.kind = "raised" => << a.call, a.exc >> \in Raises}

Silence == [kind |-> "heard", heard |-> << >>]

Returned(t, e) == [text |-> t, error |-> e, raised |-> None]

\* lines 163-176: the except clauses, tried in order
except_clauses_without_last(exc, detail) ==
    CASE exc = "WaitTimeoutError"  -> Returned(None, Some(TIMEOUT_MESSAGE))
      [] exc = "UnknownValueError" -> Returned(None, Some(UNINTELLIGIBLE_MESSAGE))
      [] exc = "RequestError"      -> Returned(None, Some(SERVICE_PREFIX \o detail))
      [] exc = "OSError"           ->
             Returned(None, Some(MICROPHONE_PREFIX \o detail \o MICROPHONE_SUFFIX))
      [] OTHER                     -> [text |-> None, error |-> None, raised |-> Some(exc)]

except_clauses(exc, detail) ==
    CASE exc = "WaitTimeoutError"  -> Returned(None, Some(TIMEOUT_MESSAGE))
      [] exc = "UnknownValueError" -> Returned(None, Some(UNINTELLIGIBLE_MESSAGE))
      [] exc = "RequestError"      -> Returned(None, Some(SERVICE_PREFIX \o detail))
      [] exc = "OSError"           ->
             Returned(None, Some(MICROPHONE_PREFIX \o detail \o MICROPHONE_SUFFIX))
      [] OTHER                     -> Returned(None, Some(UNEXPECTED_PREFIX \o detail))

\* lines 146-161 when nothing raises, the except clauses otherwise
transcribe_speech(a) ==
    IF a.kind = "heard"
    THEN Returned(Some(a.heard), None)
    ELSE except_clauses(a.exc, a.detail)

NoTranscript == Returned(None, None)

(***************************************************************************)
(* Inputs of the bounded runs.                                             *)
(***************************************************************************)
RECURSIVE join(_, _)
join(parts, sep) ==
    IF parts = << >> THEN << >>
    ELSE IF Len(parts) = 1 THEN parts[1]
    ELSE parts[1] \o sep \o join(Tail(parts), sep)

SeqsUpTo(S, n) == UNION {[1..k -> S] : k \in 0..n}

\* every raw text of at most MaxLen characters over a small alphabet, and
\* two longer texts with repeated delimiters, punctuation and inner whitespace
Alphabet == {"a", "B", "1", " ", "\t", ".", "!"}

NamedTexts ==
    { << "A",".","B",".",".","C","." >>,
      << "D","o","n","'","t"," ","!",".","\n"," ","x"," "," ","y","\n" >> }

RawTexts == SeqsUpTo(Alphabet, MaxLen) \cup NamedTexts

\* corpus texts: at most MaxSentences pieces, each followed by a period
Pieces ==
    { << "a"," ","B" >>, << "!" >>, << "!"," ","b","\t","z" >> }

MARS_TEXT ==
    << "\n","M","a","r","s"," ","i","s"," ","c","a","l","l","e","d"," ","t","h","e"," ",
       "R","e","d"," ","P","l","a","n","e","t",".","\n" >>

CorpusTexts ==
    {join([i \in DOMAIN ps |-> ps[i] \o << "." >>], << >>) :
        ps \in SeqsUpTo(Pieces, MaxSentences)} \cup {MARS_TEXT}

\* queries: at most MaxQueryTokens words separated by one space, short
\* strings of blanks and punctuation, the example question of line 261 and a
\* ten-word query
QueryTokens == { << "a" >>, << "B" >>, << "q" >> }

WHAT_IS_MARS == << "W","h","a","t"," ","i","s"," ","M","a","r","s" >>

TWO_OF_TEN ==
    << "a"," ","b"," ","q"," ","q"," ","q"," ","q"," ","q"," ","q"," ","q"," ","q","?" >>

Queries ==
    {join(ws, << " " >>) : ws \in SeqsUpTo(QueryTokens, MaxQueryTokens)}
        \cup SeqsUpTo({" ", "\t", "!"}, 2)
        \cup {WHAT_IS_MARS, TWO_OF_TEN}

(***************************************************************************)
(* The runs of the pure functions.                                         *)
(***************************************************************************)
NoReply == [response |-> << >>, matcher_calls |-> 0]

InitCommon ==
    /\ sentences = << >>
    /\ audio = Silence
    /\ best = NoMatch
    /\ reply = NoReply
    /\ transcribed = NoTranscript
    /\ chat_history = << >>
    /\ pc = "start"

\* line 287: sentences = preprocess(...)
Prepare ==
    /\ pc = "start"
    /\ sentences' = preprocess(text)
    /\ pc' = "prepared"
    /\ UNCHANGED << text, user_input, best, reply, audio, transcribed, chat_history >>

\* a call of get_most_relevant_sentence(user_input, sentences)
Match ==
    /\ pc = "prepared"
    /\ best' = get_most_relevant_sentence(user_input, sentences)
    /\ pc' = "matched"
    /\ UNCHANGED << text, sentences, user_input, reply, audio, transcribed, chat_history >>

\* a call of chatbot(user_input, sentences)
Respond ==
    /\ pc = "prepared"
    /\ reply' = chatbot(user_input, sentences)
    /\ pc' = "responded"
    /\ UNCHANGED << text, sentences, user_input, best, audio, transcribed, chat_history >>

InitPrepare == text \in RawTexts /\ user_input = << >> /\ InitCommon

NextPrepare == Prepare

SpecPrepare == InitPrepare /\ [][NextPrepare]_vars

InitRespond == text \in CorpusTexts /\ user_input \in Queries /\ InitCommon

NextRespond == Prepare \/ Match \/ Respond

SpecRespond == InitRespond /\ [][NextRespond]_vars

(***************************************************************************)
(* main: one run of the script per button press.                           *)
(***************************************************************************)
\* lines 28-59, abridged to two of its sentences
SPACE_TEXT ==
    << "\n","M","a","r","s"," ","i","s"," ","c","a","l","l","e","d"," ","t","h","e"," ",
       "R","e","d"," ","P","l","a","n","e","t"," ","b","e","c","a","u","s","e"," ","o","f",
       " ","i","t","s"," ","r","e","d","d","i","s","h"," ","a","p","p","e","a","r","a","n",
       "c","e",".","\n","A","s","t","r","o","n","a","u","t","s"," ","a","r","e"," ","p",
       "e","o","p","l","e"," ","w","h","o"," ","t","r","a","v","e","l"," ","t","o"," ","s",
       "p","a","c","e",".","\n" >>

\* the values of the text_input widget when "Ask with Text" is pressed
TextInputs == { << >>, << " " >>, WHAT_IS_MARS }

\* line 374: the slice [-5:]
DISPLAY_WINDOW == 5

\* lines 324-328 and 363-367: the entry appended to the history
entry(type, question, response) ==
    [type |-> type, question |-> question, response |-> response]

\* line 374: reversed(chat_history[-5:])
shown_oldest_first(history) ==
    LET n     == Len(history)
        first == IF n > DISPLAY_WINDOW THEN n - DISPLAY_WINDOW + 1 ELSE 1
    IN  SubSeq(history, first, n)

shown(history) ==
    LET n      == Len(history)
        first  == IF n > DISPLAY_WINDOW THEN n - DISPLAY_WINDOW + 1 ELSE 1
        recent == SubSeq(history, first, n)
    IN  [i \in 1..Len(recent) |-> recent[Len(recent) - i + 1]]

\* lines 311-330: "Ask with Text" pressed with t in the text box
AskWithText(t) ==
    /\ Len(chat_history) < MaxHistory
    /\ user_input' = t
    /\ pc' = "text"
    /\ IF truthy(t)
       THEN /\ reply' = chatbot(t, sentences)
            /\ chat_history' = Append(chat_history, entry("text", t, reply'.response))
       ELSE UNCHANGED << reply, chat_history >>
    /\ UNCHANGED << text, sentences, best, audio, transcribed >>

\* lines 333-367: "Ask with Voice" pressed, the microphone and recogniser doing a
AskWithVoice(a) ==
    /\ Len(chat_history) < MaxHistory
    /\ audio' = a
    /\ pc' = "voice"
    /\ transcribed' = transcribe_speech(a)
    /\ IF transcribed'.error # None /\ truthy(transcribed'.error[1])
       THEN UNCHANGED << user_input, reply, chat_history >>
       ELSE IF transcribed'.text # None /\ truthy(transcribed'.text[1])
       THEN /\ user_input' = transcribed'.text[1]
            /\ reply' = chatbot(user_input', sentences)
            /\ chat_history' =
                   Append(chat_history, entry("voice", user_input', reply'.response))
       ELSE UNCHANGED << user_input, reply, chat_history >>
    /\ UNCHANGED << text, sentences, best >>

\* lines 370, 380-382: "Clear History", shown while the history is not empty
ClearHistory ==
    /\ chat_history # << >>
    /\ chat_history' = << >>
    /\ pc' = "cleared"
    /\ UNCHANGED << text, sentences, user_input, best, reply, audio, transcribed >>

\* lines 283-287: the first run of the script
Init ==
    /\ text = SPACE_TEXT
    /\ sentences = preprocess(SPACE_TEXT)
    /\ user_input = << >>
    /\ best = NoMatch
    /\ reply = NoReply
    /\ audio = Silence
    /\ transcribed = NoTranscript
    /\ chat_history = << >>
    /\ pc = "idle"

Next ==
    \/ \E t \in TextInputs : AskWithText(t)
    \/ \E a \in AudioOutcomes : AskWithVoice(a)
    \/ ClearHistory

Spec == Init /\ [][Next]_vars

(***************************************************************************)
(* Vocabulary of the properties, stated without the operators above where  *)
(* a property is about what they compute.                                  *)
(***************************************************************************)
\* the k-th '.'-delimited segment of s, k = 1 .. (number of periods) + 1
Periods(s) == {i \in 1..Len(s) : s[i] = "."}

SegmentStart(s, k) ==
    IF k = 1 THEN 1
    ELSE 1 + CHOOSE i \in Periods(s) : Cardinality({j \in Periods(s) : j <= i}) = k - 1

SegmentEnd(s, k) ==
    IF k = Cardinality(Periods(s)) + 1 THEN Len(s)
    ELSE (CHOOSE i \in Periods(s) : Cardinality({j \in Periods(s) : j <= i}) = k) - 1

Segment(s, k) == SubSeq(s, SegmentStart(s, k), SegmentEnd(s, k))

\* the segments that are not empty after trimming whitespace
KeptSegments(s) ==
    {k \in 1..(Cardinality(Periods(s)) + 1) :
        \E i \in SegmentStart(s, k)..SegmentEnd(s, k) : s[i] \notin Whitespace}

\* t, a non-empty string without whitespace, is one of the
\* whitespace-delimited tokens of s
HasToken(s, t) ==
    \E i \in 1..(Len(s) - Len(t) + 1) :
        LET j == i + Len(t) - 1
        IN  /\ SubSeq(s, i, j) = t
            /\ i = 1 \/ s[i - 1] \in Whitespace
            /\ j = Len(s) \/ s[j + 1] \in Whitespace

\* the number of query tokens that occur among the tokens of sentence s
Found(query, s) ==
    LET words == query_words(query)
    IN  Cardinality({k \in DOMAIN words : HasToken(s, words[k])})

\* the largest Found over the corpus, 0 for an empty corpus
MostFound(query, corpus) ==
    LET counts == {Found(query, corpus[i]) : i \in DOMAIN corpus}
    IN  IF counts = {} THEN 0
        ELSE CHOOSE m \in counts : \A k \in counts : k <= m

\* the query has no alphanumeric character, hence no token after normalising
NoTokens(query) ==
    \A i \in DOMAIN query : LowerChar(query[i]) \notin LowerLetters \cup Digits

AllWhitespace(s) == \A i \in DOMAIN s : s[i] \in Whitespace

\* s with its first character upper-cased and nothing else changed
FirstUpper(s) == [i \in 1..Len(s) |-> IF i = 1 THEN UpperChar(s[i]) ELSE s[i]]

MARS_ANSWER ==
    << "M","a","r","s"," ","i","s"," ","c","a","l","l","e","d"," ","t","h","e"," ",
       "r","e","d"," ","p","l","a","n","e","t","." >>

(***************************************************************************)
(* Properties of preprocess (SpecPrepare).                                 *)
(***************************************************************************)
\* C1: every sentence preprocess returns is non-empty and made only of
\* lowercase letters, digits and the space character.
C1_SentencesNonEmptyAlnumSpace ==
    pc = "prepared" =>
        \A i \in DOMAIN sentences :
            /\ sentences[i] # << >>
            /\ \A j \in DOMAIN sentences[i] :
                   sentences[i][j] \in LowerLetters \cup Digits \cup {" "}

\* C8: preprocess returns, in source order, exactly one cleaned sentence for
\* each '.'-delimited segment of the lowercased input that is non-empty after
\* trimming whitespace, and nothing for the other segments; "A.B..C." yields
\* "a", "b", "c".
C8_OneSentencePerNonEmptySegment ==
    pc = "prepared" =>
        LET lowered == lower(text)
            kept    == KeptSegments(lowered)
        IN  /\ Len(sentences) = Cardinality(kept)
            /\ \A k \in kept :
                   sentences[Cardinality({j \in kept : j <= k})]
                       = re_sub(strip(Segment(lowered, k)))
            /\ text = << "A",".","B",".",".","C","." >>
                   => sentences = << << "a" >>, << "b" >>, << "c" >> >>

C8_Witness ==
    /\ pc = "prepared"
    /\ text = << "A",".","B",".",".","C","." >>
    /\ Len(sentences) = 3

(***************************************************************************)
(* Properties of get_most_relevant_sentence and chatbot (SpecRespond).     *)
(***************************************************************************)
\* C2: the returned score is the largest, over the corpus, of (query tokens
\* found in the sentence) / (query tokens), a value in [0,1]; when it is
\* positive the returned sentence is the earliest one that attains it.
C2_BestScoreEarliestSentence ==
    pc = "matched" =>
        LET n == Len(query_words(user_input))
            m == MostFound(user_input, sentences)
        IN  /\ best.score[2] > 0
            /\ 0 <= best.score[1] /\ best.score[1] <= best.score[2]
            /\ IF n = 0 THEN best.score[1] = 0
                        ELSE best.score[1] * n = m * best.score[2]
            /\ (n > 0 /\ m > 0) =>
                   \E i \in DOMAIN sentences :
                       /\ best.sentence = sentences[i]
                       /\ Found(user_input, sentences[i]) = m
                       /\ \A j \in 1..(i - 1) : Found(user_input, sentences[j]) < m

C2_Witness ==
    /\ pc = "matched"
    /\ \E i \in DOMAIN sentences : \E j \in DOMAIN sentences :
           /\ i < j
           /\ sentences[i] # sentences[j]
           /\ Found(user_input, sentences[i]) = MostFound(user_input, sentences)
           /\ Found(user_input, sentences[j]) = MostFound(user_input, sentences)
           /\ MostFound(user_input, sentences) > 0
           /\ best.sentence = sentences[i]

C4_BlankQuerySkipsMatcher ==
    pc = "responded" =>
        IF AllWhitespace(user_input)
        THEN reply.response = PROMPT_MESSAGE /\ reply.matcher_calls = 0
        ELSE reply.matcher_calls = 1

C4_Witness ==
    /\ pc = "responded"
    /\ user_input # << >>
    /\ AllWhitespace(user_input)
    /\ sentences # << >>
    /\ reply.matcher_calls = 0

\* C5: an answer that is a matched sentence is that corpus sentence with
\* only its first character upper-cased and every other character unchanged,
\* followed by one period; "What is Mars" gets "Mars is called the red planet.".
C5_AnswerIsSentenceFirstUpperPeriod ==
    pc = "responded" =>
        /\ reply.response \notin {PROMPT_MESSAGE, FALLBACK_MESSAGE} =>
               LET found == get_most_relevant_sentence(user_input, sentences)
               IN  /\ found.sentence \in Range(sentences)
                   /\ reply.response = FirstUpper(found.sentence) \o << "." >>
        /\ (text = MARS_TEXT /\ user_input = WHAT_IS_MARS) =>
               reply.response = MARS_ANSWER

C5_Witness ==
    /\ pc = "responded"
    /\ text = MARS_TEXT
    /\ user_input = WHAT_IS_MARS
    /\ reply.response = MARS_ANSWER

\* C6: the matcher returns ("", 0) when the corpus is empty and when the
\* query normalises to zero tokens.
C6_NoCorpusOrNoTokensGivesNoMatch ==
    (pc = "matched" /\ (sentences = << >> \/ NoTokens(user_input))) =>
        best.sentence = << >> /\ best.score[1] = 0

C6_Witness ==
    /\ pc = "matched"
    /\ sentences # << >>
    /\ user_input # << >>
    /\ NoTokens(user_input)
    /\ best.sentence = << >>

\* C10: chatbot returns the prompt message, the fallback message, or a
\* non-empty corpus sentence capitalised and followed by a period; never the
\* bare ".", also when the corpus holds an empty sentence.
C10_ThreeShapesNeverBarePeriod ==
    pc = "responded" =>
        /\ \/ reply.response = PROMPT_MESSAGE
           \/ reply.response = FALLBACK_MESSAGE
           \/ \E i \in DOMAIN sentences :
                  /\ sentences[i] # << >>
                  /\ reply.response = capitalize(sentences[i]) \o << "." >>
        /\ reply.response # << "." >>

C10_Witness ==
    /\ pc = "responded"
    /\ << >> \in Range(sentences)
    /\ ~AllWhitespace(user_input)
    /\ MostFound(user_input, sentences) = 0
    /\ reply.response = FALLBACK_MESSAGE

(***************************************************************************)
(* Properties of transcribe_speech and of the chat history (Spec).         *)
(***************************************************************************)
\* C7: whatever the microphone and the recogniser do, transcribe_speech
\* returns a pair with exactly one of text and error not None, no exception
\* escapes, and a listen timeout gives the timeout message.
C7_ExactlyOneOfTextAndError ==
    pc = "voice" =>
        /\ transcribed.raised = None
        /\ (transcribed.text = None) # (transcribed.error = None)
        /\ (audio.kind = "raised" /\ audio.exc = "WaitTimeoutError") =>
               /\ transcribed.text = None
               /\ transcribed.error = << TIMEOUT_MESSAGE >>

C7_Witness ==
    /\ pc = "voice"
    /\ audio.kind = "raised"
    /\ audio.exc = "WaitTimeoutError"
    /\ transcribed.error = << TIMEOUT_MESSAGE >>

\* C9: the chat history is an append-only log between clears: a text
\* submission with non-empty text and a voice submission with non-empty text
\* and no error append one entry, tagged by entry point, whose response is
\* chatbot(question, corpus); an empty text submission and a voice submission
\* ending in an error leave it unchanged; Clear History empties it; at most
\* the 5 most recent entries are shown, newest first.
C9_HistoryAppendOnlyLog ==
    [][ /\ (pc' = "text" /\ user_input' # << >>) =>
               chat_history' =
                   chat_history \o
                       << [type |-> "text", question |-> user_input',
                           response |-> chatbot(user_input', sentences).response] >>
        /\ (pc' = "text" /\ user_input' = << >>) => chat_history' = chat_history
        /\ (pc' = "voice" /\ transcribed'.error = None
                /\ transcribed'.text # None /\ transcribed'.text[1] # << >>) =>
               chat_history' =
                   chat_history \o
                       << [type |-> "voice", question |-> transcribed'.text[1],
                           response |->
                               chatbot(transcribed'.text[1], sentences).response] >>
        /\ (pc' = "voice" /\ transcribed'.error # None) => chat_history' = chat_history
        /\ pc' = "cleared" => chat_history' = << >>
        /\ \/ pc' = "cleared"
           \/ /\ Len(chat_history') \in {Len(chat_history), Len(chat_history) + 1}
              /\ SubSeq(chat_history', 1, Len(chat_history)) = chat_history
        /\ LET display == shown(chat_history')
               n       == Len(chat_history')
           IN  /\ Len(display) = IF n < 5 THEN n ELSE 5
               /\ \A i \in DOMAIN display : display[i] = chat_history'[n - i + 1]
      ]_vars

C9_Witness ==
    /\ Len(chat_history) > 5
    /\ \E i \in DOMAIN chat_history : chat_history[i].type = "text"
    /\ \E i \in DOMAIN chat_history : chat_history[i].type = "voice"
    /\ Len(shown(chat_history)) = 5
    /\ shown(chat_history)[1] = chat_history[Len(chat_history)]
    /\ pc = "voice"
    /\ transcribed.error = None

====
